---- MODULE Spec2Model ----
(***************************************************************************)
(* Post-tensioned slab strand optimizer (pt_slab_optimization_commented.py)*)
(*                                                                         *)
(* Two sections of the script are modelled, under three specifications:     *)
(*   SpecGrid  - CONTROL POINT GENERATION (lines 81-98)                     *)
(*   Spec      - PRECHECK, OPTIMIZATION, rounding/verification and the      *)
(*               mass calculation (lines 134-205), with the solver behaving *)
(*               as a numerical solver does (any status, a returned point   *)
(*               within one resolution step of an optimum)                  *)
(*   SpecExact - the same pipeline with an exact LP solver                  *)
(*                                                                         *)
(* Real quantities are exact rationals: a stress is an integer number of   *)
(* stress units, a continuous strand count is an integer number of 1/Den.  *)
(***************************************************************************)
EXTENDS Integers, Sequences, FiniteSets

VARIABLES
    \* ---- control point generation ----
    gpc,              \* position in the grid section of the script
    Npc,              \* target number of control points (line 81)
    Lx, Ly,           \* slab dimensions (line 11)
    Nx, Ny,           \* grid dimensions (lines 84-89)
    control_points,   \* flattened list of (x, y) (line 96)
    \* ---- optimization pipeline ----
    pc,               \* position in the pipeline section of the script
    A,                \* influence matrix, rows = control points (line 117)
    load_vector,      \* target stress per control point (line 127)
    stress_per_tendon,\* stress per strand (line 55)
    n_cord_max,       \* maximum strands per tendon (line 48)
    n_violations,     \* violation count, computed twice (lines 139, 179)
    formulated,       \* TRUE once cp.Problem has been built (line 164)
    status,           \* problem.status (line 169)
    n_value,          \* n.value, in units of 1/Den (line 173)
    x_opt,            \* integer strand vector (line 173)
    message,          \* the status line printed by the final verification
    report,           \* what the mass calculation printed (lines 196-205)
    error             \* the exception that ended the run, if any

gridVars == <<gpc, Npc, Lx, Ly, Nx, Ny, control_points>>
pipeVars == <<pc, A, load_vector, stress_per_tendon, n_cord_max, n_violations,
              formulated, status, n_value, x_opt, message, report, error>>
vars == <<gridVars, pipeVars>>

\* "not set yet": a string for a status or message, the empty vector for a
\* vector, -1 for a count.
None == "none"
NoVector == <<>>
NotCounted == 0 - 1
NoError == [kind |-> None, text |-> <<>>]

(***************************************************************************)
(* Bounds of the model                                                     *)
(***************************************************************************)
MaxNpc == 24
MaxSpan == 4

\* The script's own parameters (lines 81 and 11), the reference scenario.
RefNpc == 10000
RefLx == 8
RefLy == 12

(***************************************************************************)
(* CONTROL POINT GENERATION                                                *)
(***************************************************************************)

\* math.sqrt followed by int(): the largest k with k*k <= num/den.
RECURSIVE FloorSqrtFrom(_, _, _)
FloorSqrtFrom(k, num, den) ==
    IF (k + 1) * (k + 1) * den > num THEN k ELSE FloorSqrtFrom(k + 1, num, den)

RECURSIVE Gcd(_, _)
Gcd(a, b) == IF b = 0 THEN a ELSE Gcd(b, a % b)

RECURSIVE IsPowerOfTwo(_)
IsPowerOfTwo(m) == IF m = 1 THEN TRUE ELSE (m % 2 = 0 /\ IsPowerOfTwo(m \div 2))

\* aspect_ratio = Lx / Ly is a binary floating-point number: it is the exact
\* quotient only when the reduced denominator is a power of two.
ExactRatio(lx, ly) == IsPowerOfTwo(ly \div Gcd(lx, ly))

\* int(math.sqrt(Npc / aspect_ratio)) with aspect_ratio = Lx / Ly.
\* Npc / (Lx / Ly) is the rational (Npc * Ly) / Lx and the result is the floor
\* k of its square root, except that when the quotient is the perfect square
\* k*k and aspect_ratio was rounded, the floating-point quotient may fall just
\* below k*k and the result is k - 1 (as for Npc = 252, Lx = 9, Ly = 7).
FloorSqrtRatio(P, lx, ly) ==
    LET k == FloorSqrtFrom(0, P * ly, lx)
    IN  IF k >= 1 /\ k * k * lx = P * ly /\ ~ExactRatio(lx, ly)
        THEN {k - 1, k}
        ELSE {k}

\* "if N % 2 == 0: N += 1"
ForceOddBug(k) == IF k % 2 = 1 THEN k + 1 ELSE k
ForceOdd(k) == IF k % 2 = 0 THEN k + 1 ELSE k

\* Nx = int(Npc / Ny), bumped to odd.
GridNxBug(P, ny) == ForceOdd((P + ny - 1) \div ny)
GridNx(P, ny) == ForceOdd(P \div ny)

\* np.linspace(0.5, L - 0.5, N)[k] (k from 0) as the rational <<num, den>>:
\* 0.5 + k * (L - 1) / (N - 1); a single sample is the start value.
Linspace(L, N, k) ==
    IF N = 1 THEN <<1, 2>>
    ELSE <<(N - 1) + 2 * k * (L - 1), 2 * (N - 1)>>

\* [(x, y) for x in x_control for y in y_control]: outer loop x, inner y.
Flatten(lx, ly, nx, ny) ==
    [i \in 1..(nx * ny) |->
        <<Linspace(lx, nx, (i - 1) \div ny), Linspace(ly, ny, (i - 1) % ny)>>]

GridInputs ==
    ((1..MaxNpc) \X (1..MaxSpan) \X (1..MaxSpan)) \cup {<<RefNpc, RefLx, RefLy>>}

ComputeGrid ==
    /\ gpc = "start"
    /\ \E k \in FloorSqrtRatio(Npc, Lx, Ly) : Ny' = ForceOdd(k)
    /\ Nx' = GridNx(Npc, Ny')
    /\ gpc' = "gridded"
    /\ UNCHANGED <<Npc, Lx, Ly, control_points>>
    /\ UNCHANGED pipeVars

GenerateControlPoints ==
    /\ gpc = "gridded"
    /\ control_points' = Flatten(Lx, Ly, Nx, Ny)
    /\ gpc' = "points"
    /\ UNCHANGED <<Npc, Lx, Ly, Nx, Ny>>
    /\ UNCHANGED pipeVars

PipeIdle ==
    /\ pc = "idle"
    /\ A = <<>> /\ load_vector = <<>>
    /\ stress_per_tendon = 0 /\ n_cord_max = 0
    /\ n_violations = NotCounted /\ formulated = FALSE /\ status = None
    /\ n_value = NoVector /\ x_opt = NoVector /\ message = None
    /\ report = NoVector /\ error = NoError

GridIdle ==
    /\ gpc = "idle"
    /\ Npc = 0 /\ Lx = 0 /\ Ly = 0 /\ Nx = 0 /\ Ny = 0
    /\ control_points = <<>>

InitGrid ==
    /\ gpc = "start"
    /\ \E inp \in GridInputs : Npc = inp[1] /\ Lx = inp[2] /\ Ly = inp[3]
    /\ Nx = 0 /\ Ny = 0
    /\ control_points = <<>>
    /\ PipeIdle

NextGrid == ComputeGrid \/ GenerateControlPoints

SpecGrid == InitGrid /\ [][NextGrid]_vars

(***************************************************************************)
(* Inputs of the pipeline.  The influence matrix and the target field sit  *)
(* at the input boundary of the optimization core (they may be imported    *)
(* instead of computed, lines 105 and 124); the script's own A is a        *)
(* Gaussian kernel times 1 + ecc/(t/2), so every entry is >= 0, and its    *)
(* targets and per-strand stress are >= 0.                                 *)
(***************************************************************************)
MaxInfluence == 1
MaxTarget == 2
MaxStress == 2
MaxCap == 2
\* A continuous strand count is a multiple of 1/Den.
Den == 2

PointIdx == {1, 2}
TendonIdx == {1, 2}

\* cvxpy's status strings; OPTIMAL is cp.OPTIMAL (line 169).
OPTIMAL == "optimal"
SolverStatuses ==
    {OPTIMAL, "optimal_inaccurate", "infeasible", "unbounded",
     "infeasible_inaccurate", "unbounded_inaccurate"}

RECURSIVE SumTo(_, _)
SumTo(f, k) == IF k = 0 THEN 0 ELSE f[k] + SumTo(f, k - 1)

\* np.sum / cp.sum of a vector
VecSum(v) == SumTo(v, Len(v))

\* A @ (x * stress_per_tendon)
InducedStressBug(M, x, s) ==
    [i \in DOMAIN M |-> 0 - SumTo([j \in DOMAIN x |-> M[i][j] * (x[j] * s)], Len(x))]
InducedStress(M, x, s) ==
    [i \in DOMAIN M |-> SumTo([j \in DOMAIN x |-> M[i][j] * (x[j] * s)], Len(x))]

\* np.sum(induced < load): the number of violated control points
CountViolationsBug(induced, load) ==
    Cardinality({i \in DOMAIN load : induced[i] <= load[i]})
CountViolations(induced, load) ==
    Cardinality({i \in DOMAIN load : induced[i] < load[i]})

\* np.full(len(tendon_x_positions), n_cord_max)
AllActive(cap) == [j \in TendonIdx |-> cap]

\* n_violations of the precheck at strand cap `cap` (lines 134-139)
PrecheckViolations(M, load, s, cap) ==
    CountViolations(InducedStress(M, AllActive(cap), s), load)

\* The LP's constraints (lines 158-162) at the point v, v in units of 1/Den:
\* A @ (n * s) >= load_vector, n >= 0, n <= n_cord_max.
ConstraintsBug(M, load, s, cap, v) ==
    /\ \A i \in DOMAIN load : InducedStress(M, v, s)[i] > load[i] * Den
    /\ \A j \in DOMAIN v : v[j] >= 0
    /\ \A j \in DOMAIN v : v[j] <= cap * Den
Constraints(M, load, s, cap, v) ==
    /\ \A i \in DOMAIN load : InducedStress(M, v, s)[i] >= load[i] * Den
    /\ \A j \in DOMAIN v : v[j] >= 0
    /\ \A j \in DOMAIN v : v[j] <= cap * Den

FeasibleRegion(M, load, s, cap) ==
    {v \in [TendonIdx -> 0..(cap * Den)] : Constraints(M, load, s, cap, v)}

\* cp.Minimize(cp.sum(n)): the minimizers of the LP at resolution 1/Den
OptimaBug(M, load, s, cap) ==
    LET region == FeasibleRegion(M, load, s, cap)
    IN  {v \in region : \A w \in region : VecSum(v) >= VecSum(w)}
Optima(M, load, s, cap) ==
    LET region == FeasibleRegion(M, load, s, cap)
    IN  {v \in region : \A w \in region : VecSum(v) <= VecSum(w)}

\* np.ceil(n.value).astype(int), componentwise; v in units of 1/Den
CeilBugFloor(a) == a \div Den
CeilBugPlusOne(a) == (a \div Den) + 1
Ceil(a) == 0 - ((0 - a) \div Den)
CeilVec(v) == [j \in DOMAIN v |-> Ceil(v[j])]

\* ---- PRECHECK: ALL TENDONS ACTIVE (lines 134-148) ----
Precheck ==
    /\ pc = "precheck"
    /\ n_violations' = PrecheckViolations(A, load_vector, stress_per_tendon, n_cord_max)
    /\ IF n_violations' = 0
       THEN /\ pc' = "optimize"
            /\ error' = error
       ELSE /\ pc' = "aborted"
            /\ error' = [kind |-> "RuntimeError",
                         text |-> <<"Optimization aborted: constraints cannot be met even with all tendons fully activated.">>]
    /\ UNCHANGED <<A, load_vector, stress_per_tendon, n_cord_max, formulated,
                   status, n_value, x_opt, message, report>>
    /\ UNCHANGED gridVars

\* The status check after problem.solve (lines 169-170).
SolverOutcomeBug(st, v) ==
    /\ formulated' = TRUE
    /\ status' = st
    /\ IF st \notin {OPTIMAL, "optimal_inaccurate"}
       THEN /\ pc' = "failed"
            /\ n_value' = n_value
            /\ error' = [kind |-> "ValueError",
                         text |-> <<"Optimization failed. Status: ", st>>]
       ELSE /\ pc' = "round"
            /\ n_value' = v
            /\ error' = error
    /\ UNCHANGED <<A, load_vector, stress_per_tendon, n_cord_max, n_violations,
                   x_opt, message, report>>
    /\ UNCHANGED gridVars
SolverOutcome(st, v) ==
    /\ formulated' = TRUE
    /\ status' = st
    /\ IF st # OPTIMAL
       THEN /\ pc' = "failed"
            /\ n_value' = n_value
            /\ error' = [kind |-> "ValueError",
                         text |-> <<"Optimization failed. Status: ", st>>]
       ELSE /\ pc' = "round"
            /\ n_value' = v
            /\ error' = error
    /\ UNCHANGED <<A, load_vector, stress_per_tendon, n_cord_max, n_violations,
                   x_opt, message, report>>
    /\ UNCHANGED gridVars

\* What a numerical solver may hand back around an optimum: each component
\* off by at most one resolution step.
Nearby(v) ==
    {w \in [TendonIdx -> (0 - 1)..(n_cord_max * Den + 1)] :
        \A j \in TendonIdx : w[j] - v[j] \in {0 - 1, 0, 1}}

\* ---- OPTIMIZATION (lines 156-170), numerical solver ----
Solve ==
    /\ pc = "optimize"
    /\ \/ \E st \in SolverStatuses \ {OPTIMAL} : SolverOutcome(st, NoVector)
       \/ \E v \in Optima(A, load_vector, stress_per_tendon, n_cord_max) :
            \E w \in Nearby(v) : SolverOutcome(OPTIMAL, w)

\* ---- OPTIMIZATION (lines 156-170), exact solver ----
SolveExact ==
    /\ pc = "optimize"
    /\ LET best == Optima(A, load_vector, stress_per_tendon, n_cord_max)
       IN  IF best = {}
           THEN SolverOutcome("infeasible", NoVector)
           ELSE \E v \in best : SolverOutcome(OPTIMAL, v)

\* ---- rounding and final verification (lines 172-183) ----
RoundAndVerifyBug ==
    /\ pc = "round"
    /\ x_opt' = CeilVec(n_value)
    /\ n_violations' =
         CountViolations(InducedStress(A, x_opt', stress_per_tendon), load_vector)
    /\ IF n_violations' > 0
       THEN /\ pc' = "failed"
            /\ message' = message
            /\ error' = [kind |-> "RuntimeError", text |-> <<"violated after rounding">>]
       ELSE /\ pc' = "mass"
            /\ message' = "satisfied"
            /\ error' = error
    /\ UNCHANGED <<A, load_vector, stress_per_tendon, n_cord_max, formulated,
                   status, n_value, report>>
    /\ UNCHANGED gridVars
RoundAndVerify ==
    /\ pc = "round"
    /\ x_opt' = CeilVec(n_value)
    /\ n_violations' =
         CountViolations(InducedStress(A, x_opt', stress_per_tendon), load_vector)
    /\ message' = IF n_violations' > 0 THEN "warning" ELSE "satisfied"
    /\ pc' = "mass"
    /\ UNCHANGED <<A, load_vector, stress_per_tendon, n_cord_max, formulated,
                   status, n_value, report, error>>
    /\ UNCHANGED gridVars

\* total_strands_full = len(tendon_x_positions) * n_cord_max (line 196)
TotalStrandsFull(cap) == Cardinality(TendonIdx) * cap

\* ---- POST-TENSIONING MASS CALCULATION (lines 191-205) ----
\* report = <<total_strands_full, total_strands_opt>>, the two strand totals
\* the masses are proportional to.
MassCalculation ==
    /\ pc = "mass"
    /\ report' = <<TotalStrandsFull(n_cord_max), VecSum(x_opt)>>
    /\ pc' = "done"
    /\ UNCHANGED <<A, load_vector, stress_per_tendon, n_cord_max, n_violations,
                   formulated, status, n_value, x_opt, message, error>>
    /\ UNCHANGED gridVars

Init ==
    /\ GridIdle
    /\ pc = "precheck"
    /\ A \in [PointIdx -> [TendonIdx -> 0..MaxInfluence]]
    /\ load_vector \in [PointIdx -> 0..MaxTarget]
    /\ stress_per_tendon \in 0..MaxStress
    /\ n_cord_max \in 1..MaxCap
    /\ n_violations = NotCounted /\ formulated = FALSE /\ status = None
    /\ n_value = NoVector /\ x_opt = NoVector /\ message = None
    /\ report = NoVector /\ error = NoError

Next == Precheck \/ Solve \/ RoundAndVerify \/ MassCalculation

NextExact == Precheck \/ SolveExact \/ RoundAndVerify \/ MassCalculation

Spec == Init /\ [][Next]_vars

SpecExact == Init /\ [][NextExact]_vars

(***************************************************************************)
(* Properties                                                              *)
(***************************************************************************)

\* Stress induced at control point i by the strand vector x, written out
\* from the matrix product: sum over tendons of A[i][j] * x[j] * s.
StressAt(i, x) ==
    SumTo([j \in TendonIdx |-> A[i][j] * x[j] * stress_per_tendon],
          Cardinality(TendonIdx))

PrecheckDone == pc \in {"aborted", "optimize", "failed", "round", "mass", "done"}
PrecheckPassed == pc \in {"optimize", "failed", "round", "mass", "done"}
Rounded == pc \in {"mass", "done"}

\* Some control point is strictly below its target with every tendon at n_cord_max.
FullCapacityShort ==
    \E i \in PointIdx : StressAt(i, [j \in TendonIdx |-> n_cord_max]) < load_vector[i]

\* C1: feasibility precheck gate.  With every tendon at the maximum strand
\* count, if some control point has induced stress strictly below its target
\* the run ends in the "cannot be met even with all tendons fully activated"
\* error, the LP is never formulated or solved and no strand vector
\* (continuous or integer) exists; otherwise (equality counts as satisfied)
\* the run proceeds to the optimizer.
C1_PrecheckGate ==
    PrecheckDone =>
        /\ FullCapacityShort =>
              /\ pc = "aborted"
              /\ error.kind = "RuntimeError"
              /\ ~formulated /\ status = None
              /\ n_value = NoVector /\ x_opt = NoVector /\ report = NoVector
        /\ ~FullCapacityShort =>
              /\ PrecheckPassed
              /\ error.kind # "RuntimeError"
              /\ pc # "optimize" => formulated

\* C1 witness: a run aborted by the precheck.
C1_Witness ==
    /\ pc = "aborted" /\ FullCapacityShort /\ error.kind = "RuntimeError"

\* C2: solver failure is fatal.  Whenever the solver ends with a status other
\* than "optimal", the run ends in an error carrying that status verbatim, and
\* rounding, verification and the mass report never run.
C2_SolverFailureFatal ==
    (status # None /\ status # OPTIMAL) =>
        /\ pc = "failed"
        /\ error.kind = "ValueError"
        /\ error.text = <<"Optimization failed. Status: ", status>>
        /\ x_opt = NoVector /\ message = None /\ report = NoVector

\* C2 witness: the solver reported an inaccurate status and the run failed.
C2_Witness ==
    /\ status = "optimal_inaccurate" /\ pc = "failed"

\* x is the componentwise ceiling of v / Den.
IsCeilOf(x, v) ==
    /\ DOMAIN x = DOMAIN v
    /\ \A j \in DOMAIN v : x[j] * Den >= v[j] /\ (x[j] - 1) * Den < v[j]

\* C3: a rounding inconsistency is a warning, not a fatal error.  Once the
\* solver has returned "optimal" the run goes on to completion without an
\* error, delivering the ceiling-rounded vector to the mass stage whether the
\* post-rounding violation count is zero or positive (positive only turns the
\* printed status into a warning); a run ended by the precheck or the solver
\* never reaches the output stage.
C3_RoundingWarningOnly ==
    /\ status = OPTIMAL =>
          /\ pc \in {"round", "mass", "done"}
          /\ error = NoError
          /\ pc = "round" => ENABLED RoundAndVerify
          /\ pc = "mass" => ENABLED MassCalculation
          /\ Rounded =>
                /\ IsCeilOf(x_opt, n_value)
                /\ n_violations =
                     Cardinality({i \in PointIdx : StressAt(i, x_opt) < load_vector[i]})
                /\ message = IF n_violations > 0 THEN "warning" ELSE "satisfied"
          /\ pc = "done" => report = <<Cardinality(TendonIdx) * n_cord_max, VecSum(x_opt)>>
    /\ error # NoError =>
          /\ pc \in {"aborted", "failed"}
          /\ x_opt = NoVector /\ report = NoVector

\* C3 witness: a completed run whose final verification printed the warning.
C3_Witness ==
    /\ pc = "done" /\ status = OPTIMAL /\ n_violations > 0
    /\ message = "warning" /\ report # NoVector

\* The continuous solution meets every stress constraint.
ContinuousFeasible ==
    \A i \in PointIdx : StressAt(i, n_value) >= load_vector[i] * Den

\* C4: rounding safety.  When the continuous solution n satisfies
\* A.(n.s) >= target, the ceiling-rounded vector induces at every control
\* point a stress >= that of n, and the post-rounding violation count is 0.
C4_RoundingSafety ==
    (Rounded /\ ContinuousFeasible) =>
        /\ \A i \in PointIdx : StressAt(i, x_opt) * Den >= StressAt(i, n_value)
        /\ \A i \in PointIdx : StressAt(i, x_opt) >= load_vector[i]
        /\ n_violations = 0

\* C4 witness: a feasible continuous solution with a fractional component that
\* was rounded up and raised the stress at some control point.
C4_Witness ==
    /\ Rounded /\ ContinuousFeasible /\ n_violations = 0
    /\ n_value \in Optima(A, load_vector, stress_per_tendon, n_cord_max)
    /\ \E j \in TendonIdx : x_opt[j] * Den > n_value[j]
    /\ \E i \in PointIdx : StressAt(i, x_opt) * Den > StressAt(i, n_value)

\* The all-max allocation, in units of 1/Den.
AllMax == [j \in TendonIdx |-> n_cord_max * Den]

\* C7: LP feasibility after a passed precheck.  Whenever the precheck found
\* zero violations, the all-n_max vector satisfies every constraint of the LP,
\* the feasible region is non-empty, and the exact solver never returns
\* "infeasible".
C7_LPFeasibleAfterPrecheck ==
    PrecheckPassed =>
        /\ \A i \in PointIdx : StressAt(i, AllMax) >= load_vector[i] * Den
        /\ \A j \in TendonIdx : 0 <= AllMax[j] /\ AllMax[j] <= n_cord_max * Den
        /\ AllMax \in FeasibleRegion(A, load_vector, stress_per_tendon, n_cord_max)
        /\ status # "infeasible"
        /\ pc # "failed"

\* C7 witness: a run that passed the precheck with some control point exactly
\* at its target under full capacity, and whose LP was solved.
C7_Witness ==
    /\ pc = "round" /\ status = OPTIMAL
    /\ \E i \in PointIdx :
          /\ load_vector[i] > 0
          /\ StressAt(i, AllMax) = load_vector[i] * Den

\* Integer strand vectors within the per-tendon bounds that meet every
\* stress constraint.
FeasibleIntegerVectors ==
    {x \in [TendonIdx -> 0..n_cord_max] :
        \A i \in PointIdx : StressAt(i, x) >= load_vector[i]}

C9_PrecheckMonotone ==
    PrecheckDone =>
        \A C2 \in 0..(MaxCap + 1) :
            /\ C2 >= n_cord_max =>
                  /\ \A i \in PointIdx :
                        InducedStress(A, AllActive(C2), stress_per_tendon)[i]
                          >= InducedStress(A, AllActive(n_cord_max), stress_per_tendon)[i]
                  /\ PrecheckPassed =>
                        PrecheckViolations(A, load_vector, stress_per_tendon, C2) = 0
            /\ (C2 <= n_cord_max /\ pc = "aborted") =>
                  PrecheckViolations(A, load_vector, stress_per_tendon, C2) > 0

\* C9 witness: a precheck that passed at its cap although it fails one strand
\* lower, so the cap decides the outcome.
C9_Witness ==
    /\ pc = "optimize" /\ n_cord_max > 1
    /\ PrecheckViolations(A, load_vector, stress_per_tendon, n_cord_max - 1) > 0

\* The continuous solution respects the per-tendon bounds.
ContinuousInBounds ==
    \A j \in TendonIdx : 0 <= n_value[j] /\ n_value[j] <= n_cord_max * Den

\* C10: delivered strand counts respect the per-tendon bounds.  On a run that
\* reaches the output stage with 0 <= n_j <= n_max, every x_opt_j is an
\* integer in 0..n_max, hence the optimized total never exceeds the full
\* total tendon_count * n_max.
C10_StrandBounds ==
    (Rounded /\ ContinuousInBounds) =>
        /\ \A j \in TendonIdx : x_opt[j] \in 0..n_cord_max
        /\ pc = "done" =>
              /\ report[1] = Cardinality(TendonIdx) * n_cord_max
              /\ report[2] = VecSum(x_opt)
              /\ report[2] <= report[1]

\* C10 witness: a tendon whose fractional count was rounded up onto n_max.
C10_Witness ==
    /\ pc = "done" /\ ContinuousInBounds
    /\ n_value \in Optima(A, load_vector, stress_per_tendon, n_cord_max)
    /\ \E j \in TendonIdx :
          /\ x_opt[j] = n_cord_max
          /\ n_value[j] < n_cord_max * Den

GridDone == gpc \in {"gridded", "points"}

\* C5: grid oddness.  Ny is floor(sqrt(P/r)) bumped to odd (with floor k or,
\* at a perfect square under floating-point rounding, k - 1) and Nx is
\* floor(P/Ny) bumped to odd; both are odd and >= 1, also when a floor is 0;
\* for P = 10000 and r = 8/12 the grid is Ny = 123, Nx = 81.
C5_GridOdd ==
    GridDone =>
        /\ Nx % 2 = 1 /\ Ny % 2 = 1
        /\ Nx >= 1 /\ Ny >= 1
        /\ \E k \in 0..(Ny + 1) :
              /\ k * k * Lx <= Npc * Ly /\ Npc * Ly < (k + 1) * (k + 1) * Lx
              /\ \/ Ny = (IF k % 2 = 0 THEN k + 1 ELSE k)
                 \/ /\ k >= 1 /\ k * k * Lx = Npc * Ly
                    /\ Ny = (IF k % 2 = 1 THEN k ELSE k - 1)
        /\ \E q \in {Nx - 1, Nx} :
              /\ q >= 0
              /\ q * Ny <= Npc /\ Npc < (q + 1) * Ny
              /\ Nx = IF q % 2 = 0 THEN q + 1 ELSE q
        /\ (Npc = 10000 /\ Lx = 8 /\ Ly = 12) => (Ny = 123 /\ Nx = 81)

\* C5 witness: the reference scenario's grid.
C5_Witness ==
    /\ GridDone /\ Npc = 10000 /\ Lx = 8 /\ Ly = 12 /\ Ny = 123 /\ Nx = 81

Abs(a) == IF a < 0 THEN 0 - a ELSE a

\* C6: grid point count.  |Nx.Ny - P| <= Ny, and the flattened control-point
\* list (outer loop over x, inner over y) has exactly Nx.Ny entries.
C6_GridPointCount ==
    /\ GridDone => Abs(Nx * Ny - Npc) <= Ny
    /\ gpc = "points" =>
          /\ Len(control_points) = Nx * Ny
          /\ \A a \in 0..(Nx - 1) : \A b \in 0..(Ny - 1) :
                control_points[a * Ny + b + 1] = <<Linspace(Lx, Nx, a), Linspace(Ly, Ny, b)>>

\* C6 witness: a generated list where the count is off by exactly Ny.
C6_Witness ==
    /\ gpc = "points" /\ Len(control_points) = Nx * Ny
    /\ Nx * Ny - Npc = Ny /\ Nx > 1

====
